---- MODULE Spec2Model ----
(***************************************************************************)
(* A model of Life.Model (the Game of Life data model for a phosphor       *)
(* DataGrid): the two generation arrays _data and _swap, the interval      *)
(* timer that start() schedules and stop() clears, the state setter, and   *)
(* the static step function Life.Model.tick.                               *)
(*                                                                         *)
(* Arrays are objects on a heap, so that two references to one array are   *)
(* told apart from two equal arrays.  A generation is a function from the  *)
(* row index 0..rows-1 to a function from the column index 0..columns-1    *)
(* to a Bit, indexed from 0 as in the source.  The rows of one generation  *)
(* are taken to be arrays of their own, shared with no other generation.   *)
(*                                                                         *)
(* The definitions named ...NoWrap, ...Short, ...FlagOnly and the like are *)
(* faulty variants of the definition that follows them; each property is   *)
(* also run against one of them to see that it can fail.                   *)
(***************************************************************************)
EXTENDS Integers, Sequences, FiniteSets, TLC

\* ------------------------------------------------------------------------
\* Bounds of the model
\* ------------------------------------------------------------------------
\* Largest world, in cells, handed to the constructor.
MaxCells == 3
\* Largest world, in cells, handed to the state setter.
MaxAssignCells == 2
\* Largest world, in cells, handed to Life.Model.tick called on its own.
MaxTickCells == 9
\* Largest world (in cells) for which random draws are enumerated.
MaxFluctCells == 2
\* Number of timer callbacks that run between two calls of start().
MaxTicks == 3
\* Number of timer ids window.setInterval chooses from.
MaxTimers == 2
\* Number of calls of Life.Model.tick in one ping-pong run.
MaxSteps == 3
\* Largest side of the worlds that hold one block or one blinker.
MaxPatternSide == 5
\* Most cells of an assigned array whose rows differ in length.
MaxJaggedCells == 3

\* ------------------------------------------------------------------------
\* Constants of the program
\* ------------------------------------------------------------------------
INTERVAL == 250

\* Probabilities are kept in tenths: Math.random() is in [0, 1).
Scale == 10
RandomValues == {0, 4, 9}
Fluctuations == {0, 5, Scale}

Bit == {0, 1}

Addr == 1..4

\* ------------------------------------------------------------------------
\* Arrays
\* ------------------------------------------------------------------------
Length(a) == Cardinality(DOMAIN a)

\* The rectangular worlds of at most n cells.
SmallWorlds(n) ==
  UNION {[0..(d[1] - 1) -> [0..(d[2] - 1) -> Bit]] :
           d \in {e \in (1..n) \X (1..n) : e[1] * e[2] <= n}}

\* The worlds handed to the constructor, and those handed to the state setter.
ModelWorlds == SmallWorlds(MaxCells)

AssignWorlds == SmallWorlds(MaxAssignCells)

\* The dead world of R rows and C columns but for the cells in live.
Pattern(R, C, live) ==
  [i \in 0..(R - 1) |->
     [j \in 0..(C - 1) |-> IF <<i, j>> \in live THEN 1 ELSE 0]]

\* A 2x2 block with its top left cell at (r, c).
BlockAt(R, C, r, c) ==
  Pattern(R, C, {<<r, c>>, <<r, c + 1>>, <<r + 1, c>>, <<r + 1, c + 1>>})

\* Three cells in a row around (r, c), on the torus.
BlinkerAt(R, C, r, c, horizontal) ==
  Pattern(R, C, IF horizontal
                THEN {<<r, (c + d) % C>> : d \in {-1, 0, 1}}
                ELSE {<<(r + d) % R, c>> : d \in {-1, 0, 1}})

BlockWorlds ==
  UNION {{BlockAt(R, C, r, c) : r \in 0..(R - 2), c \in 0..(C - 2)} :
           R \in 4..MaxPatternSide, C \in 4..MaxPatternSide}

BlinkerWorlds ==
  UNION {{BlinkerAt(R, C, p[1], p[2], p[3]) :
            p \in (0..(R - 1)) \X (0..(C - 1)) \X BOOLEAN} :
           R \in 5..MaxPatternSide, C \in 5..MaxPatternSide}

\* Arrays of two rows, the second longer than the first.
JaggedWorlds ==
  UNION {{(0 :> top) @@ (1 :> bottom) :
            top \in [0..(d[1] - 1) -> Bit], bottom \in [0..(d[2] - 1) -> Bit]} :
           d \in {e \in (1..MaxJaggedCells) \X (1..MaxJaggedCells) :
                    e[1] < e[2] /\ e[1] + e[2] <= MaxJaggedCells}}

\* Values of type Bit[][] that are no rectangle of cells: the empty array
\* and the jagged ones.
InvalidWorlds == {<<>>} \cup JaggedWorlds

\* The worlds handed to Life.Model.tick called on its own.
TickWorlds == SmallWorlds(MaxTickCells) \cup BlockWorlds \cup BlinkerWorlds

\* The address a fresh array is allocated at.
Alloc(h) == CHOOSE a \in Addr \ DOMAIN h : \A b \in Addr \ DOMAIN h : a <= b

\* The heap once the arrays no longer referenced are collected: the two
\* arrays the model holds, moved to the lowest addresses.
Collect(h, data, swap) ==
  IF data = swap
  THEN [heap |-> (1 :> h[data]), data |-> 1, swap |-> 1]
  ELSE [heap |-> (1 :> h[data]) @@ (2 :> h[swap]), data |-> 1, swap |-> 2]

\* ------------------------------------------------------------------------
\* Life.Model.tick
\* ------------------------------------------------------------------------
\* Variant: no wrap-around at index 0.
decrementNoWrap(i, last) == IF i >= 1 THEN i - 1 ELSE 0

decrement(i, last) == IF i >= 1 THEN i - 1 ELSE last

\* Variant: no wrap-around at the last index.
incrementNoWrap(i, last) == IF i + 1 <= last THEN i + 1 ELSE last

increment(i, last) == IF i + 1 <= last THEN i + 1 ELSE 0

neighbors(input, i, j, lastRow, lastCol) ==
  LET decX == decrement(i, lastRow)
      decY == decrement(j, lastCol)
      incX == increment(i, lastRow)
      incY == increment(j, lastCol)
  IN  input[decX][decY] + input[i][decY] + input[incX][decY] +
      input[decX][j] + input[incX][j] +
      input[decX][incY] + input[i][incY] + input[incX][incY]

\* Variant: a live cell survives on two neighbors only.
ruleSurviveOnTwo(alive, n) ==
  IF alive = 1 /\ n < 2 THEN 0
  ELSE IF alive = 1 /\ n = 2 THEN 1
  ELSE IF alive = 1 /\ n > 2 THEN 0
  ELSE IF alive = 0 /\ n = 3 THEN 1
  ELSE 0

\* Variant: the last branch tests for two neighbors.
ruleBirthOnTwo(alive, n) ==
  IF alive = 1 /\ n < 2 THEN 0
  ELSE IF (alive = 1 /\ n = 2) \/ n = 3 THEN 1
  ELSE IF alive = 1 /\ n > 3 THEN 0
  ELSE IF alive = 0 /\ n = 2 THEN 1
  ELSE 0

\* The if / else-if chain; && binds tighter than ||.
rule(alive, n) ==
  IF alive = 1 /\ n < 2 THEN 0
  ELSE IF (alive = 1 /\ n = 2) \/ n = 3 THEN 1
  ELSE IF alive = 1 /\ n > 3 THEN 0
  ELSE IF alive = 0 /\ n = 3 THEN 1
  ELSE 0

\* fluctuation && Math.random() < fluctuation
\* Variant: the draw is compared the other way round.
flipWhenAbove(cell, fluctuation, draw) ==
  IF fluctuation # 0 /\ draw >= fluctuation THEN 1 - cell ELSE cell

flip(cell, fluctuation, draw) ==
  IF fluctuation # 0 /\ draw < fluctuation THEN 1 - cell ELSE cell

\* The two nested loops, cell by cell in row-major order, reading and
\* writing the heap as they go.  Beside the heap the result records the
\* neighbor count computed for each cell and the cells written.
tickLoop(h, input, output, fluctuation, draws, rows, columns) ==
  LET lastCol == columns - 1
      lastRow == rows - 1
      RECURSIVE loop(_, _)
      loop(acc, idx) ==
        IF idx >= rows * columns THEN acc
        ELSE LET i == idx \div columns
                 j == idx % columns
                 alive == acc.heap[input][i][j]
                 n == neighbors(acc.heap[input], i, j, lastRow, lastCol)
                 cell == flip(rule(alive, n), fluctuation, draws[idx])
             IN  loop([heap |-> [acc.heap EXCEPT ![output][i][j] = cell],
                       counts |-> (<<i, j>> :> n) @@ acc.counts,
                       written |-> acc.written \cup {<<i, j>>}],
                      idx + 1)
  IN  loop([heap |-> h, counts |-> <<>>, written |-> {}], 0)

\* Variant: the outer loop stops one row early.
tickRunShort(h, input, output, fluctuation, draws) ==
  tickLoop(h, input, output, fluctuation, draws,
           Length(h[input]) - 1, Length(h[input][0]))

\* const rows = input.length; const columns = input[0].length;
tickRun(h, input, output, fluctuation, draws) ==
  tickLoop(h, input, output, fluctuation, draws,
           Length(h[input]), Length(h[input][0]))

NoDraws == [idx \in Nat |-> 0]

tick(h, input, output, fluctuation, draws) ==
  tickRun(h, input, output, fluctuation, draws).heap

\* One generation computed from the value g, fluctuation 0.
Step(g) == tick((1 :> g) @@ (2 :> g), 1, 2, 0, NoDraws)[2]

\* ------------------------------------------------------------------------
\* JSON.parse(JSON.stringify(state)) on an array of arrays of bits
\* ------------------------------------------------------------------------
RECURSIVE commaJoin(_)
commaJoin(parts) ==
  IF parts = <<>> THEN <<>>
  ELSE IF Len(parts) = 1 THEN parts[1]
  ELSE parts[1] \o <<",">> \o commaJoin(Tail(parts))

stringifyBit(b) == IF b = 1 THEN <<"1">> ELSE <<"0">>

stringifyRow(r) ==
  <<"[">> \o commaJoin([k \in 1..Length(r) |-> stringifyBit(r[k - 1])])
          \o <<"]">>

JSONstringify(m) ==
  <<"[">> \o commaJoin([k \in 1..Length(m) |-> stringifyRow(m[k - 1])])
          \o <<"]">>

\* A sequence of sequences as an array of arrays indexed from 0.
ToArray(s) ==
  [i \in 0..(Len(s) - 1) |-> [j \in 0..(Len(s[i + 1]) - 1) |-> s[i + 1][j + 1]]]

JSONparse(text) ==
  LET RECURSIVE scan(_, _)
      scan(acc, p) ==
        IF p > Len(text) THEN acc.rows
        ELSE LET t == text[p]
                 next ==
                   CASE t = "[" ->
                          IF acc.depth = 0 THEN [acc EXCEPT !.depth = 1]
                          ELSE [acc EXCEPT !.depth = 2, !.row = <<>>]
                     [] t = "]" ->
                          IF acc.depth = 2
                          THEN [acc EXCEPT !.depth = 1,
                                           !.rows = Append(@, acc.row)]
                          ELSE [acc EXCEPT !.depth = 0]
                     [] t = "0" -> [acc EXCEPT !.row = Append(@, 0)]
                     [] t = "1" -> [acc EXCEPT !.row = Append(@, 1)]
                     [] OTHER -> acc
             IN  scan(next, p + 1)
  IN  ToArray(scan([depth |-> 0, rows |-> <<>>, row |-> <<>>], 1))

\* JSON.parse(JSON.stringify(state)), computed once for each world.
RoundTrips == [w \in ModelWorlds |-> JSONparse(JSONstringify(w))]

RoundTrip(state) ==
  IF state \in DOMAIN RoundTrips THEN RoundTrips[state]
  ELSE JSONparse(JSONstringify(state))

\* ------------------------------------------------------------------------
\* Life.Model
\* ------------------------------------------------------------------------
VARIABLES
  heap,       \* the arrays: address -> generation
  _data,      \* this._data, an address
  _swap,      \* this._swap, an address
  _started,   \* this._started: undefined, 0 or a timer id
  _interval,  \* this._interval
  _tick,      \* this._tick: the name of the step function
  timers,     \* window's active intervals: id -> the callback's closure
  pc,         \* "idle", or "observer" inside a changed handler
  signal,     \* the args emitChanged has delivered in the running callback
  lastOp,     \* history: the last operation and its argument
  run,        \* history: the generation at the last start(), ticks since
  pending,    \* history: steps that returned and were not yet notified
  call        \* a direct call of Life.Model.tick (used by TickSpec only)

vars == <<heap, _data, _swap, _started, _interval, _tick, timers,
          pc, signal, lastOp, run, pending, call>>

\* The value of a field that was never assigned.
undefined == -1

Truthy(x) == x # 0 /\ x # undefined

\* a || b
OrElse(a, b) == IF Truthy(a) THEN a ELSE b

\* The options the model is constructed with beside `initial`: none, or an
\* interval and a step function that throws; undefined and "undefined"
\* stand for an absent key.
Options ==
  {[interval |-> undefined, tick |-> "undefined"],
   [interval |-> 50, tick |-> "throws"]}

\* The options of the wider model: also a function that throws on some of
\* its calls and is Life.Model.tick on the others.
WideOptions == Options \cup {[interval |-> 50, tick |-> "flaky"]}

\* this._tick = options.tick || Model.tick
tickOrDefault(option) == IF option = "undefined" THEN "Model.tick" ELSE option

clearInterval(tm, id) == [t \in (DOMAIN tm) \ {id} |-> tm[t]]

\* Variant: the flag of the closure starts as true.
setIntervalFlagSet(tm, id) == (id :> [swap |-> TRUE]) @@ tm

\* The callback closes over the local `swap` of the start() call.
setInterval(tm, id) == (id :> [swap |-> FALSE]) @@ tm

\* Variant: the flag is reset but the interval is not cleared.
stopFlagOnly(st, tm) ==
  IF Truthy(st)
  THEN [started |-> 0, timers |-> tm]
  ELSE [started |-> st, timers |-> tm]

\* Variant: no test of _started.
stopUnguarded(st, tm) == [started |-> 0, timers |-> clearInterval(tm, st)]

stop(st, tm) ==
  IF Truthy(st)
  THEN [started |-> 0, timers |-> clearInterval(tm, st)]
  ELSE [started |-> st, timers |-> tm]

\* Variant: a running timer is not stopped first.
startNoStop(st, tm, id) ==
  [started |-> id, timers |-> setInterval(tm, id)]

start(st, tm, id) ==
  LET s == stop(st, tm)
  IN  [started |-> id, timers |-> setInterval(s.timers, id)]

\* Variant: _swap refers to the passed array instead of a copy.
setStateShared(h, st, tm, ref) ==
  LET s == IF Truthy(st) THEN stop(st, tm) ELSE [started |-> st, timers |-> tm]
  IN  [heap |-> h, data |-> ref, swap |-> ref,
       started |-> s.started, timers |-> s.timers]

\* set state(state): ref is the address of the array the caller passes.
setState(h, st, tm, ref) ==
  LET s == IF Truthy(st) THEN stop(st, tm) ELSE [started |-> st, timers |-> tm]
      copy == RoundTrip(h[ref])
      a == Alloc(h)
  IN  [heap |-> (a :> copy) @@ h, data |-> ref, swap |-> a,
       started |-> s.started, timers |-> s.timers]

\* Variant: the two spans exchanged.
changedArgsTransposed(data) ==
  [type |-> "cells-changed", rowSpan |-> Length(data[0]),
   columnSpan |-> Length(data), region |-> "body",
   rowIndex |-> 0, columnIndex |-> 0]

changedArgs(data) ==
  [type |-> "cells-changed", rowSpan |-> Length(data),
   columnSpan |-> Length(data[0]), region |-> "body",
   rowIndex |-> 0, columnIndex |-> 0]

\* Variant: the handlers are not called before emitChanged returns.
emitChangedDeferred(sig, args) == sig

\* emitChanged calls the handlers before it returns.
emitChanged(sig, args) == Append(sig, args)

NoArg == <<>>
NoRun == [on |-> FALSE, G |-> <<>>, k |-> 0]
NoCall == [phase |-> "none"]
Op(name, arg, ticks) ==
  [op |-> name, arg |-> arg, wasStarted |-> Truthy(_started), ticks |-> ticks]

\* new Life.Model({ initial, interval, tick })
\* new Life.Model(options)
Construct(initial, options) ==
    LET r == setState((1 :> initial), undefined, <<>>, 1)
    IN  /\ _interval = OrElse(options.interval, INTERVAL)
        /\ _tick = tickOrDefault(options.tick)
        /\ heap = r.heap
        /\ _data = r.data
        /\ _swap = r.swap
        /\ _started = r.started
        /\ timers = r.timers
        /\ pc = "idle"
        /\ signal = <<>>
        /\ lastOp = [op |-> "new", arg |-> initial, wasStarted |-> FALSE,
                     ticks |-> 0]
        /\ run = NoRun
        /\ pending = 0
        /\ call = NoCall

Init ==
  \E initial \in ModelWorlds, options \in Options :
    Construct(initial, options)

\* Construction with any value of type IOptions.
WideInit ==
  \E initial \in ModelWorlds \cup InvalidWorlds, options \in WideOptions :
    Construct(initial, options)

\* window.setInterval returns an id greater than zero that no active timer
\* has; which one is up to the browser.
Start ==
  /\ \E id \in (1..MaxTimers) \ DOMAIN stop(_started, timers).timers :
       \E r \in {start(_started, timers, id)} :
         /\ _started' = r.started
         /\ timers' = r.timers
  /\ lastOp' = Op("start", NoArg, run.k)
  /\ run' = [on |-> TRUE, G |-> heap[_data], k |-> 0]
  /\ UNCHANGED <<heap, _data, _swap, _interval, _tick, pc, signal, pending,
                 call>>

Stop ==
  /\ \E r \in {stop(_started, timers)} :
       /\ _started' = r.started
       /\ timers' = r.timers
  /\ lastOp' = Op("stop", NoArg, run.k)
  /\ run' = NoRun
  /\ UNCHANGED <<heap, _data, _swap, _interval, _tick, pc, signal, pending,
                 call>>

\* model.state = h[ref]
Assign(h, ref) ==
  \E r \in {setState(h, _started, timers, ref)} :
    /\ \E c \in {Collect(r.heap, r.data, r.swap)} :
         /\ heap' = c.heap
         /\ _data' = c.data
         /\ _swap' = c.swap
    /\ _started' = r.started
    /\ timers' = r.timers
    /\ lastOp' = Op("assign", h[ref], run.k)
    /\ run' = NoRun
    /\ UNCHANGED <<_interval, _tick, pc, signal, pending, call>>

\* model.state = a new array
SetState == \E w \in AssignWorlds :
  Assign((Alloc(heap) :> w) @@ heap, Alloc(heap))

\* model.state = an empty or a jagged array
SetStateInvalid == \E w \in InvalidWorlds :
  Assign((Alloc(heap) :> w) @@ heap, Alloc(heap))

\* model.state = model.state
SetStateSame == Assign(heap, _data)

\* Variant: the exchange without the temporary.
exchangeNoTemp(flag, data, swp) ==
  IF flag THEN [data |-> swp, swap |-> swp] ELSE [data |-> data, swap |-> swp]

\* if (swap = !swap) { [this._data, this._swap] = [this._swap, this._data] }
exchange(flag, data, swp) ==
  IF flag THEN [data |-> swp, swap |-> data] ELSE [data |-> data, swap |-> swp]

\* Whether the call this._tick(input, output) throws: an IOptions.tick may
\* throw at will and Life.Model.tick throws a TypeError on input[0].length
\* when input is empty.
throws(fn, input) ==
  IF fn = "throws" \/ Length(input) = 0 THEN {TRUE}
  ELSE IF fn = "flaky" THEN BOOLEAN
  ELSE {FALSE}

\* The interval callback of the timer id.
Tick(id) ==
  /\ pc = "idle"
  /\ id \in DOMAIN timers
  /\ run.on => run.k < MaxTicks
  /\ LET swap == ~timers[id].swap
         data == exchange(swap, _data, _swap).data
         swp == exchange(swap, _data, _swap).swap
     IN  \E threw \in throws(_tick, heap[swp]) :
         \E h \in {IF threw THEN heap ELSE tick(heap, swp, data, 0, NoDraws)} :
         /\ timers' = [timers EXCEPT ![id].swap = swap]
         /\ _data' = data
         /\ _swap' = swp
         /\ heap' = h
         /\ signal' = IF threw THEN signal
                       ELSE emitChanged(signal, changedArgs(h[data]))
         /\ pc' = IF signal' # <<>> THEN "observer" ELSE "idle"
         /\ pending' = IF threw THEN pending
                        ELSE pending + 1 - (Len(signal') - Len(signal))
  /\ lastOp' = Op("tick", NoArg, IF run.on THEN run.k + 1 ELSE 0)
  /\ run' = IF run.on THEN [run EXCEPT !.k = @ + 1] ELSE run
  /\ UNCHANGED <<_started, _interval, _tick, call>>

\* The changed handler returns, and with it emitChanged and the callback.
Return ==
  /\ pc = "observer"
  /\ pc' = "idle"
  /\ signal' = <<>>
  /\ UNCHANGED <<heap, _data, _swap, _started, _interval, _tick, timers,
                 lastOp, run, pending, call>>

Next ==
  \/ Start
  \/ Stop
  \/ SetState
  \/ SetStateSame
  \/ \E id \in 1..MaxTimers : Tick(id)
  \/ Return

Spec == Init /\ [][Next]_vars

\* get rowCount / columnCount
rowCount(h, ref) == Length(h[ref])

columnCount(h, ref) == Length(h[ref][0])

\* Life.Model.data(region, row, column): return this._data[row][column].
\* An index that is no key of an array reads as undefined, and reading an
\* element of undefined throws a TypeError.
data(h, ref, row, column) ==
  IF row \notin DOMAIN h[ref] THEN [threw |-> TRUE, value |-> undefined]
  ELSE IF column \notin DOMAIN h[ref][row]
       THEN [threw |-> FALSE, value |-> undefined]
       ELSE [threw |-> FALSE, value |-> h[ref][row][column]]

\* model.data('body', row, column), inside the grid and just outside it
Read ==
  /\ \E row \in -1..rowCount(heap, _data),
        column \in -1..columnCount(heap, _data) :
       lastOp' = Op("data", [row |-> row, column |-> column,
                             result |-> data(heap, _data, row, column)],
                    run.k)
  /\ UNCHANGED <<heap, _data, _swap, _started, _interval, _tick, timers, pc,
                 signal, run, pending, call>>

\* A model that is constructed, assigned to and read.
ReadNext == Read \/ SetState

ReadSpec == Init /\ [][ReadNext]_vars

\* The model with every input its types allow.
WideNext == Next \/ SetStateInvalid

WideSpec == WideInit /\ [][WideNext]_vars

\* ------------------------------------------------------------------------
\* Life.Model.tick called on its own, ping-pong between two arrays
\* ------------------------------------------------------------------------
Cells(g) == Length(g) * Length(g[0])

Filled(g, b) == [i \in DOMAIN g |-> [j \in DOMAIN g[i] |-> b]]

\* The values Math.random() returns over one call, one per cell; it is not
\* called at all when fluctuation is 0.
Draws(g, fluctuation) ==
  IF fluctuation = 0 THEN {[idx \in 0..(Cells(g) - 1) |-> 0]}
  ELSE [0..(Cells(g) - 1) -> RandomValues]

TickInit ==
  \E g \in TickWorlds, aliased \in BOOLEAN, fluctuation \in Fluctuations :
    /\ fluctuation # 0 => Cells(g) <= MaxFluctCells
    /\ heap = IF aliased THEN (1 :> g) ELSE (1 :> g) @@ (2 :> Filled(g, 1))
    /\ call = [phase |-> "ready", input |-> 1,
               output |-> IF aliased THEN 1 ELSE 2,
               fluctuation |-> fluctuation, steps |-> 0, origin |-> g,
               before |-> heap, counts |-> <<>>, written |-> {},
               draws |-> <<>>]
    /\ _data = 0
    /\ _swap = 0
    /\ _started = undefined
    /\ _interval = INTERVAL
    /\ _tick = "Model.tick"
    /\ timers = <<>>
    /\ pc = "idle"
    /\ signal = <<>>
    /\ lastOp = [op |-> "none", arg |-> NoArg, wasStarted |-> FALSE,
                 ticks |-> 0]
    /\ run = NoRun
    /\ pending = 0

\* Life.Model.tick(input, output, fluctuation)
RunTick ==
  /\ call.phase = "ready"
  /\ \E draws \in Draws(heap[call.input], call.fluctuation) :
       \E r \in {tickRun(heap, call.input, call.output, call.fluctuation,
                          draws)} :
         /\ heap' = r.heap
         /\ call' = [call EXCEPT !.phase = "done", !.steps = @ + 1,
                                 !.before = heap, !.counts = r.counts,
                                 !.written = r.written, !.draws = draws]
  /\ UNCHANGED <<_data, _swap, _started, _interval, _tick, timers, pc,
                 signal, lastOp, run, pending>>

\* The caller exchanges the two arrays for the next generation.
Exchange ==
  /\ call.phase = "done"
  /\ call.steps < MaxSteps
  /\ call' = [call EXCEPT !.phase = "ready", !.input = call.output,
                          !.output = call.input]
  /\ UNCHANGED <<heap, _data, _swap, _started, _interval, _tick, timers, pc,
                 signal, lastOp, run, pending>>

TickNext == RunTick \/ Exchange

TickSpec == TickInit /\ [][TickNext]_vars

\* ------------------------------------------------------------------------
\* Properties of Life.Model (specification Spec)
\* ------------------------------------------------------------------------
Running == Truthy(_started)

RECURSIVE Iterate(_, _)
Iterate(k, g) == IF k = 0 THEN g ELSE Step(Iterate(k - 1, g))

\* C1: after k ticks of one run, with no start, stop or state assignment in
\* between, the current generation is the step function applied k times to
\* the generation the run started on.
C1_EveryTickAdvances ==
  (run.on /\ _tick = "Model.tick") => heap[_data] = Iterate(run.k, run.G)

\* C2: right after a state assignment the model is stopped, the current
\* generation equals the assigned one cell for cell, and the scratch array is
\* an equal copy held in another array.
C2_AssignInstalls ==
  lastOp.op = "assign" =>
    /\ ~Running
    /\ DOMAIN timers = {}
    /\ heap[_data] = lastOp.arg
    /\ heap[_swap] = lastOp.arg
    /\ _data # _swap

C2_Witness ==
  /\ lastOp.op = "assign"
  /\ lastOp.wasStarted
  /\ lastOp.ticks >= 2
  /\ pc = "observer"
  /\ heap[_data] = lastOp.arg

\* A step that is a run of the interval callback: it flips the closure's flag.
TickStep == lastOp'.op = "tick" /\ timers' # timers

\* C3: while the model is stopped no timer callback runs: no notification is
\* emitted and, unless a state is assigned, both arrays keep their values.
C3_NoTickAfterStop ==
  [][~Running =>
       /\ ~TickStep
       /\ Len(signal') <= Len(signal)
       /\ lastOp'.op # "assign" =>
            /\ heap'[_data'] = heap[_data]
            /\ heap'[_swap'] = heap[_swap]]_vars

C3_Witness ==
  /\ lastOp.op = "stop"
  /\ lastOp.wasStarted
  /\ lastOp.ticks >= 1
  /\ ~Running

\* C4: at most one interval timer is active, exactly one (the one _started
\* names) when the model is running, and a start() leaves a fresh one.
C4_OneTimer ==
  /\ Cardinality(DOMAIN timers) <= 1
  /\ Running <=> DOMAIN timers # {}
  /\ Running => DOMAIN timers = {_started}
  /\ lastOp.op = "start" => Running /\ ~timers[_started].swap

C4_Witness ==
  /\ lastOp.op = "start"
  /\ lastOp.wasStarted
  /\ lastOp.ticks >= 1
  /\ Running

\* C5: the model is stopped when created, and stop() on a stopped model
\* changes neither the running flag, the arrays, the interval nor the step
\* function.
C5_StopWhenStoppedNoOp ==
  /\ ~Running
  /\ DOMAIN timers = {}
  /\ [][(lastOp'.op = "stop" /\ pc' = pc /\ ~Running) =>
          UNCHANGED <<_started, heap, _data, _swap, _interval, _tick,
                      timers, signal>>]_vars

C5_Witness ==
  /\ lastOp.op = "stop"
  /\ ~lastOp.wasStarted
  /\ _started = undefined

FullGrid(g) ==
  [type |-> "cells-changed", rowSpan |-> Length(g),
   columnSpan |-> Length(g[0]), region |-> "body",
   rowIndex |-> 0, columnIndex |-> 0]

\* C6: a notification is emitted only by a run of the interval callback;
\* each run whose step function returns emits exactly one, for the full
\* grid, with the new generation already written.
C6_OneNotificationPerTick ==
  [][/\ Len(signal') > Len(signal) => TickStep
     /\ (TickStep /\ _tick = "Model.tick") =>
          /\ signal' = <<FullGrid(heap'[_data'])>>
          /\ pc' = "observer"
          /\ heap'[_data'] = Step(heap'[_swap'])
     /\ (TickStep /\ _tick = "throws") => signal' = <<>>]_vars

C6_Witness ==
  /\ pc = "observer"
  /\ lastOp.op = "tick"
  /\ lastOp.ticks >= 2
  /\ signal = <<FullGrid(heap[_data])>>
  /\ signal[1].rowSpan = 2
  /\ signal[1].columnSpan = 1

\* C7: a timer callback begins only when no changed handler is running and
\* every earlier callback whose step returned has had its notification
\* delivered.
C7_TicksDoNotOverlap ==
  [][TickStep =>
       /\ pc = "idle"
       /\ signal = <<>>
       /\ pending = 0]_vars

C7_Witness ==
  /\ lastOp.op = "tick"
  /\ lastOp.ticks >= 2
  /\ lastOp.wasStarted
  /\ pc = "observer"
  /\ pending = 0

\* ------------------------------------------------------------------------
\* Properties of Life.Model.tick (specification TickSpec)
\* ------------------------------------------------------------------------
Done == call.phase = "done"

Distinct == call.input # call.output

Conway(alive, n) ==
  IF alive = 1 THEN (IF n \in {2, 3} THEN 1 ELSE 0)
  ELSE (IF n = 3 THEN 1 ELSE 0)

LiveCells(g) == {c \in (DOMAIN g) \X (DOMAIN g[0]) : g[c[1]][c[2]] = 1}

\* C8: with fluctuation 0 every cell of the output is the Conway rule of the
\* cell's input value and its neighbor count, for alive in {0,1} and every
\* count 0..8; a lone live cell on a world of at least 3x3 dies.
C8_ConwayRule ==
  /\ \A alive \in Bit, n \in 0..8 : rule(alive, n) = Conway(alive, n)
  /\ (Done /\ call.fluctuation = 0) =>
       /\ \A c \in DOMAIN call.counts :
            heap[call.output][c[1]][c[2]] =
              Conway(call.before[call.input][c[1]][c[2]], call.counts[c])
       /\ ( /\ Distinct
            /\ Length(call.before[call.input]) >= 3
            /\ Length(call.before[call.input][0]) >= 3
            /\ Cardinality(LiveCells(call.before[call.input])) = 1 )
          => LiveCells(heap[call.output]) = {}

C8_Witness ==
  /\ Done
  /\ call.fluctuation = 0
  /\ Distinct
  /\ \E c \in DOMAIN call.counts :
       /\ call.before[call.input][c[1]][c[2]] = 0
       /\ call.counts[c] = 3
       /\ heap[call.output][c[1]][c[2]] = 1
  /\ \E c \in DOMAIN call.counts :
       /\ call.before[call.input][c[1]][c[2]] = 1
       /\ call.counts[c] = 2
       /\ heap[call.output][c[1]][c[2]] = 1

Offsets == ({-1, 0, 1} \X {-1, 0, 1}) \ {<<0, 0>>}

RECURSIVE SumOver(_, _)
SumOver(S, f) ==
  IF S = {} THEN 0
  ELSE LET x == CHOOSE y \in S : TRUE IN f[x] + SumOver(S \ {x}, f)

ToroidalCount(g, i, j) ==
  LET R == Length(g)
      C == Length(g[0])
  IN  SumOver(Offsets, [d \in Offsets |-> g[(i + d[1]) % R][(j + d[2]) % C]])

\* C9: the neighbor count of cell (i, j) is the sum of the 8 cells at
\* ((i+di) mod R, (j+dj) mod C), for every world of R >= 1 rows and C >= 1
\* columns.
C9_ToroidalNeighbors ==
  (Done /\ Distinct) =>
    /\ DOMAIN call.counts =
         (DOMAIN call.before[call.input]) \X (DOMAIN call.before[call.input][0])
    /\ \A c \in DOMAIN call.counts :
         call.counts[c] = ToroidalCount(call.before[call.input], c[1], c[2])

C9_Witness ==
  /\ Done
  /\ Distinct
  /\ Length(call.before[call.input]) = 3
  /\ Length(call.before[call.input][0]) = 3
  /\ LiveCells(call.before[call.input]) = {<<0, 0>>, <<2, 2>>}
  /\ call.counts[<<0, 0>>] = 1

\* C10: when input and output are different arrays of the same dimensions,
\* the input is left as it was and every cell of the output is written.
C10_InputKeptOutputFilled ==
  (Done /\ Distinct) =>
    /\ heap[call.input] = call.before[call.input]
    /\ call.written =
         (DOMAIN heap[call.input]) \X (DOMAIN heap[call.input][0])
    /\ DOMAIN heap[call.output] = DOMAIN heap[call.input]
    /\ \A i \in DOMAIN heap[call.output] :
         heap[call.output][i] \in [DOMAIN heap[call.input][i] -> Bit]

C10_Witness ==
  /\ Done
  /\ Distinct
  /\ Cells(heap[call.input]) = 9
  /\ call.steps = 1
  /\ \A c \in call.written :
       heap[call.output][c[1]][c[2]] # call.before[call.output][c[1]][c[2]]


\* C11: a 2x2 block on an otherwise dead world of at least 4x4 is a still
\* life: after any number of steps with fluctuation 0 the generation is the
\* initial one.
C11_BlockIsStill ==
  (Done /\ Distinct /\ call.fluctuation = 0 /\ call.origin \in BlockWorlds)
    => heap[call.output] = call.origin

C11_Witness ==
  /\ Done
  /\ Distinct
  /\ call.fluctuation = 0
  /\ call.steps >= 3
  /\ call.origin = BlockAt(4, 4, 2, 2)
  /\ heap[call.output] = call.origin

\* The blinker around the same cell in the other direction.
Turned(g) ==
  LET R == Length(g)
      C == Length(g[0])
      p == CHOOSE q \in (0..(R - 1)) \X (0..(C - 1)) \X BOOLEAN :
             g = BlinkerAt(R, C, q[1], q[2], q[3])
  IN  BlinkerAt(R, C, p[1], p[2], ~p[3])

\* C12: a blinker on an otherwise dead world of at least 5x5 has period 2
\* with fluctuation 0: an odd number of steps yields the perpendicular three
\* in a row, a different generation, and an even number the initial one.
C12_BlinkerPeriodTwo ==
  (Done /\ Distinct /\ call.fluctuation = 0 /\ call.origin \in BlinkerWorlds)
    => IF call.steps % 2 = 1
       THEN /\ heap[call.output] = Turned(call.origin)
            /\ heap[call.output] # call.origin
       ELSE heap[call.output] = call.origin

C12_Witness ==
  /\ Done
  /\ Distinct
  /\ call.fluctuation = 0
  /\ call.steps = 2
  /\ call.origin = BlinkerAt(5, 5, 2, 2, TRUE)
  /\ heap[call.input] = BlinkerAt(5, 5, 2, 2, FALSE)
  /\ heap[call.output] = call.origin


\* The next generation by the rule of Conway on the torus.
Expected(g) ==
  [i \in DOMAIN g |->
     [j \in DOMAIN g[i] |-> Conway(g[i][j], ToroidalCount(g, i, j))]]

Inverted(g) == [i \in DOMAIN g |-> [j \in DOMAIN g[i] |-> 1 - g[i][j]]]

\* C13: with fluctuation 1.0 every cell of the output is the inverse of what
\* fluctuation 0 gives for the same input, whatever the random draws are;
\* with fluctuation 0 no cell is inverted.
C13_FluctuationInverts ==
  (Done /\ Distinct) =>
    /\ call.fluctuation = Scale =>
         heap[call.output] = Inverted(Expected(call.before[call.input]))
    /\ call.fluctuation = 0 =>
         heap[call.output] = Expected(call.before[call.input])

C13_Witness ==
  /\ Done
  /\ Distinct
  /\ call.fluctuation = Scale
  /\ Cells(heap[call.output]) = 2
  /\ \E idx \in DOMAIN call.draws : call.draws[idx] = 9
  /\ \E idx \in DOMAIN call.draws : call.draws[idx] = 0
  /\ heap[call.output] = Inverted(Expected(call.before[call.input]))
  /\ LiveCells(heap[call.output]) # {}


NonEmptyRectangular(g) ==
  /\ Length(g) > 0
  /\ \A i \in DOMAIN g : Length(g[i]) = Length(g[0])

\* A step of the state setter.
AssignStep == lastOp'.op = "assign" /\ pc' = pc

\* C14: an empty or jagged generation is rejected at construction and on
\* assignment: the current generation is never such a value, and a step
\* that assigns one leaves the contents of current and scratch as they were.
C14_InvalidStateRejected ==
  /\ [](NonEmptyRectangular(heap[_data]))
  /\ [][(AssignStep /\ ~NonEmptyRectangular(lastOp'.arg))
          => (heap'[_data'] = heap[_data] /\ heap'[_swap'] = heap[_swap])]_vars


\* C15: reading a cell fails for every (row, column) outside
\* [0, rowCount) x [0, columnCount), row = rowCount and column = columnCount
\* included, and returns current[row][column], a value in {0, 1}, inside.
C15_ReadChecksBounds ==
  lastOp.op = "data" =>
    LET row == lastOp.arg.row
        column == lastOp.arg.column
        result == lastOp.arg.result
    IN  IF /\ row \in 0..(rowCount(heap, _data) - 1)
           /\ column \in 0..(columnCount(heap, _data) - 1)
        THEN /\ ~result.threw
             /\ result.value = heap[_data][row][column]
             /\ result.value \in Bit
        ELSE result.threw


\* A callback whose step function threw: nothing was emitted.
TickThrew == TickStep /\ signal' = signal

\* C16: if the step function fails during a tick, on whichever tick of the
\* run, the readable current generation holds exactly the values it held
\* before that tick.
C16_FailedStepKeepsCurrent ==
  [][TickThrew => heap'[_data'] = heap[_data]]_vars


\* Rows and columns of a generation.
Dims(g) == <<Length(g), Length(g[0])>>

\* C17: current and scratch have identical dimensions in every reachable
\* state, and no start, stop, tick or state assignment changes rowCount or
\* columnCount from the values they had at construction.
C17_DimensionsFixed ==
  /\ [](Dims(heap[_data]) = Dims(heap[_swap]))
  /\ [][/\ rowCount(heap', _data') = rowCount(heap, _data)
         /\ columnCount(heap', _data') = columnCount(heap, _data)]_vars


\* C18: on every tick of the default step function the new current
\* generation is the step of the generation that was current before the
\* tick, and scratch then holds the values that were current before it.
C18_TickStepsCurrent ==
  [][(TickStep /\ _tick = "Model.tick")
       => /\ heap'[_data'] = Step(heap[_data])
          /\ heap'[_swap'] = heap[_data]]_vars


\* C19: with the default step function, after every completed tick of any
\* run current is the step of scratch, and current and scratch are never
\* the same buffer.
C19_CurrentIsStepOfScratch ==
  /\ _data # _swap
  /\ (lastOp.op = "tick" /\ _tick = "Model.tick")
       => heap[_data] = Step(heap[_swap])

C19_Witness ==
  /\ lastOp.op = "tick"
  /\ _tick = "Model.tick"
  /\ lastOp.ticks = 3
  /\ _data # _swap
  /\ heap[_data] # heap[_swap]
  /\ heap[_data] = Step(heap[_swap])

\* C20: the first tick after start(), whatever ticks came before it, sets
\* current to the step of the generation that was current when start() was
\* called.
C20_FirstTickAfterStart ==
  (run.on /\ run.k = 1 /\ _tick = "Model.tick")
    => heap[_data] = Step(run.G)

C20_Witness ==
  /\ run.on
  /\ run.k = 1
  /\ lastOp.op = "tick"
  /\ _tick = "Model.tick"
  /\ _data = 1
  /\ heap[_swap] = run.G
  /\ heap[_data] = Step(run.G)
  /\ heap[_data] # run.G

====
